---- MODULE Spec2Model ----
(***************************************************************************)
(* The automation orchestrator of the SpaceTraders UI                      *)
(* (services/automation.ts): the per-ship AutomationState map, the per-    *)
(* ship action queues, the persisted snapshot in localStorage, the         *)
(* setInterval timer and the asynchronous tick invocations it spawns.      *)
(*                                                                         *)
(* JavaScript runs one handler at a time, so every action below is the     *)
(* code that runs between two suspension points: a public method call, a   *)
(* timer firing, or the continuation of a tick after one awaited Gateway   *)
(* call resolved or rejected.  Awaits of async functions that never reach  *)
(* a Gateway call resume in the same microtask drain and are part of the   *)
(* same action.                                                            *)
(*                                                                         *)
(* Objects have identity.  A queue array lives in a heap slot; a step is   *)
(* addressed by its index in the sequence of all steps the array holds or  *)
(* has shifted out while some tick still holds them.  Slots and shifted    *)
(* steps that nothing references any more are collected (Collect), as the  *)
(* JavaScript garbage collector does.  An AutomationState object that      *)
(* startAutomation or a reload replaced is only ever written, never read,  *)
(* by the ticks that still hold it, except for its immutable behavior and  *)
(* policy: a tick's reference carries those and a `stale` mark.            *)
(*                                                                         *)
(* `last` is a history variable: the handler that ran last, its inputs,    *)
(* the steps it shifted out of a queue and those whose retries it          *)
(* incremented, and the numbers of method calls and timer firings so far,  *)
(* which the specifications bound.  Spec drives two ships through the      *)
(* public methods with one tick in flight at a time; SpecOverlap lets the  *)
(* timer fire while earlier ticks still await the Gateway.                 *)
(***************************************************************************)
EXTENDS Integers, Sequences, FiniteSets, TLC

\* The number of tick() invocations that may be in flight together.
MaxTicks == 2

Ships == {"S1", "S2"}

NSlots == Cardinality(Ships) + MaxTicks

VARIABLES
    automationStates,   \* Map<string, AutomationState>: a function on the ships that have a state
    stateOrder,         \* the insertion order of automationStates' keys
    actionQueues,       \* Map<string, ActionStep[]>: ship -> heap slot of its array
    arrays,             \* the heap of queue arrays
    stored,             \* localStorage['spacetraders_automation_states']
    isRunning,
    intervalId,
    ticks,              \* the tick() invocations in flight
    last,               \* history: the handler that ran last
    requests,           \* RateLimiter.requests: the times of the slots in the window
    now,                \* Date.now()
    callers,            \* the calls of waitForSlot that have not returned
    granted             \* history: the times at which waitForSlot returned

orchestratorVars == <<automationStates, stateOrder, actionQueues, arrays, stored,
                      isRunning, intervalId, ticks, last>>

limiterVars == <<requests, now, callers, granted>>

vars == <<automationStates, stateOrder, actionQueues, arrays, stored,
          isRunning, intervalId, ticks, last, requests, now, callers, granted>>

----------------------------------------------------------------------------
\* Strings built from a template carry the template and its arguments.
Text(t) == [text |-> t, n |-> 0, sym |-> ""]

Undefined == Text("undefined")

Min(a, b) == IF a < b THEN a ELSE b

\* a.b on an object that may lack the key
Has(obj, key) == key \in DOMAIN obj

----------------------------------------------------------------------------
\* AutomationPolicy

DefaultStopConditions == [maxCargo |-> TRUE, lowFuel |-> TRUE, creditLimit |-> FALSE]

DefaultMinFuelPercent == 10

DefaultMiningPolicy ==
    [autoSellWhenFull |-> TRUE,
     minFuelPercent   |-> DefaultMinFuelPercent,
     maxCredits       |-> 1000000,
     preferredMarkets |-> <<>>,
     stopConditions   |-> DefaultStopConditions]

DefaultTradingPolicy ==
    [maxBuyPriceDeviation |-> 10, minProfitMargin |-> 15,
     reserveCredits |-> 100000, maxDistance |-> 50]

DefaultContractPolicy ==
    [autoAccept |-> FALSE, priorityTypes |-> <<"PROCUREMENT", "TRANSPORT">>,
     maxDeadlineDays |-> 30, minReward |-> 50000]

defaultPolicy ==
    [mining |-> DefaultMiningPolicy,
     trading |-> DefaultTradingPolicy,
     contract |-> DefaultContractPolicy]

\* { ...defaultPolicy, ...policy }: every own key of the overrides replaces
\* the value of that key as a whole.
MergePolicy(policy) ==
    [k \in DOMAIN defaultPolicy \cup DOMAIN policy |->
        IF k \in DOMAIN policy THEN policy[k] ELSE defaultPolicy[k]]

\* The overrides a caller passes: none, a whole mining policy, or an object
\* naming only some options of the mining policy.
NoOverrides == << >>

PolicyInputs ==
    { NoOverrides,
      [mining |-> [DefaultMiningPolicy EXCEPT !.autoSellWhenFull = FALSE]],
      [mining |-> [minFuelPercent |-> 5]] }

----------------------------------------------------------------------------
\* Waypoint symbols: `${systemSymbol}-${name}`

Waypoint(sys, name) == [system |-> sys, name |-> name]

NoTarget == Waypoint("", "")

\* currentWaypoint.includes('ASTEROID') || currentWaypoint.includes('ENGINEERED_ASTEROID')
IncludesAsteroid(w) == w.name \in {"ASTEROID-1", "ENGINEERED_ASTEROID-2"}

\* mount.symbol.includes('SURVEYOR')
IncludesSurveyor(m) == m \in {"MOUNT_SURVEYOR_I"}

----------------------------------------------------------------------------
\* ActionStep.  `tried` is history: executeAction has been called on the step.

NoPayload == [contractId |-> "", tradeSymbol |-> "", units |-> 0, destinationSymbol |-> NoTarget]

Step(type, target, payload, maxRetries) ==
    [type |-> type, target |-> target, payload |-> payload,
     retries |-> 0, maxRetries |-> maxRetries, tried |-> FALSE]

----------------------------------------------------------------------------
\* What the Gateway may answer.

ShipSnapshot(status, wp, fuel, fuelCap, units, capacity, inv, cd, mounts) ==
    [nav      |-> [systemSymbol |-> "X1", waypointSymbol |-> Waypoint("X1", wp), status |-> status],
     fuel     |-> [current |-> fuel, capacity |-> fuelCap],
     cargo    |-> [units |-> units, capacity |-> capacity, inventory |-> inv],
     cooldown |-> [remainingSeconds |-> cd],
     mounts   |-> mounts]

Ore(n) == [symbol |-> "IRON_ORE", units |-> n]
Ice(n) == [symbol |-> "ICE_WATER", units |-> n]

\* The answers of getShip the ticks of Spec see.
TickShips ==
    { ShipSnapshot("DOCKED",   "HQ",            100, 100,  0, 40, << >>,               0, {}),
      ShipSnapshot("IN_ORBIT", "ASTEROID-1",    100, 100, 10, 40, <<Ore(10)>>,         0, {"MOUNT_SURVEYOR_I"}),
      ShipSnapshot("DOCKED",   "MARKETPLACE-1",  50, 100, 38, 40, <<Ore(30), Ice(8)>>, 0, {}) }

Deliverable(good, required, fulfilled) ==
    [tradeSymbol |-> good, destinationSymbol |-> Waypoint("X1", "HQ"),
     unitsRequired |-> required, unitsFulfilled |-> fulfilled]

Contract(accepted, fulfilled, deliver) ==
    [id |-> "C-1", type |-> "PROCUREMENT", accepted |-> accepted, fulfilled |-> fulfilled,
     terms |-> [deliver |-> deliver]]

\* The answers of getContracts the ticks of Spec see.
TickContracts ==
    { << >>,
      << Contract(TRUE, FALSE, << Deliverable("IRON_ORE", 20, 0) >>) >>,
      << Contract(TRUE, FALSE, << Deliverable("IRON_ORE", 20, 20), Deliverable("GOLD", 5, 0) >>) >> }

----------------------------------------------------------------------------
\* AutomationState

Percent(units, capacity) == [num |-> units * 100, den |-> capacity]

NewState(shipSymbol, behavior, policy) ==
    [shipSymbol   |-> shipSymbol,
     behavior     |-> behavior,
     status       |-> "running",
     currentTask  |-> Text("Initializing automation"),
     progress     |-> Percent(0, 1),
     lastAction   |-> "Date",
     errorMessage |-> Undefined,
     policy       |-> MergePolicy(policy)]

----------------------------------------------------------------------------
\* executeAction up to its first await: "call" when it awaits the Gateway,
\* else the value it returns at once.

\* Fault: executeAction without the tests of ship.nav.status
ExecuteUnchecked(ship, action) ==
    IF action.type \in {"navigate", "dock", "orbit", "refuel", "extract", "survey", "sell"}
    THEN "call" ELSE "false"

ExecuteActionStart(ship, action) ==
    CASE action.type = "navigate" ->
            IF action.target # NoTarget THEN "call" ELSE "false"
      [] action.type = "dock" ->
            IF ship.nav.status # "DOCKED" THEN "call" ELSE "true"
      [] action.type = "orbit" ->
            IF ship.nav.status # "IN_ORBIT" THEN "call" ELSE "true"
      [] action.type = "refuel" ->
            IF ship.nav.status = "DOCKED" THEN "call" ELSE "false"
      [] action.type = "extract" ->
            IF ship.nav.status = "IN_ORBIT" THEN "call" ELSE "false"
      [] action.type = "survey" ->
            IF ship.nav.status = "IN_ORBIT" THEN "call" ELSE "false"
      [] action.type = "sell" ->
            IF ship.nav.status = "DOCKED" /\ ship.cargo.units > 0
            THEN (IF Len(ship.cargo.inventory) > 0 THEN "call" ELSE "true")
            ELSE "false"
      [] OTHER -> "false"    \* default: 'Unknown action type' (buy, deliver)

\* The Gateway calls executeAction awaits one after another.
GatewayCalls(ship, action) ==
    IF action.type = "sell" THEN Len(ship.cargo.inventory) ELSE 1

----------------------------------------------------------------------------
\* Planning.  A planner takes the ship snapshot, the AutomationState object
\* and the array, and yields both as it leaves them, with `thrown` the
\* message of the exception it ends with (Undefined when it returns).

Planned(state, queue) == [state |-> state, queue |-> queue, thrown |-> Undefined]

Thrown(state, queue, msg) == [state |-> state, queue |-> queue, thrown |-> Text(msg)]

Truthy(obj, key) == Has(obj, key) /\ obj[key] = TRUE

planSellActions(ship, state, queue) ==
    IF ship.cargo.units = 0 THEN Planned(state, queue)
    ELSE Planned(
            [state EXCEPT !.currentTask = Text("Navigating to market to sell cargo")],
            queue \o << Step("navigate", Waypoint(ship.nav.systemSymbol, "MARKETPLACE-1"), NoPayload, 3),
                        Step("dock", NoTarget, NoPayload, 3),
                        Step("sell", NoTarget, NoPayload, 3) >>)

\* Fault: cargo counts as full only at capacity
CargoFullAtCapacity(ship) == ship.cargo.units >= ship.cargo.capacity

\* ship.cargo.units >= ship.cargo.capacity * 0.9
CargoFull(ship) == ship.cargo.units * 10 >= ship.cargo.capacity * 9

\* (ship.fuel.current / ship.fuel.capacity * 100) < policy.minFuelPercent;
\* a division by 0 gives NaN or Infinity and a missing option undefined:
\* the comparison is false.
FuelLow(ship, policy) ==
    /\ Has(policy, "minFuelPercent")
    /\ ship.fuel.capacity # 0
    /\ ship.fuel.current * 100 < policy.minFuelPercent * ship.fuel.capacity

planMiningActions(ship, state, queue) ==
    LET policy == state.policy.mining IN
    IF ~Has(policy, "stopConditions")
    THEN Thrown(state, queue, "Cannot read properties of undefined (reading 'maxCargo')")
    ELSE IF Truthy(policy.stopConditions, "maxCargo") /\ CargoFull(ship)
    THEN IF Truthy(policy, "autoSellWhenFull")
         THEN planSellActions(ship,
                  [state EXCEPT !.currentTask = Text("Cargo full, finding market to sell")],
                  queue)
         ELSE Planned([state EXCEPT !.status = "paused",
                                    !.currentTask = Text("Cargo full, automation paused")],
                      queue)
    ELSE IF Truthy(policy.stopConditions, "lowFuel") /\ FuelLow(ship, policy)
    THEN Planned([state EXCEPT !.currentTask = Text("Low fuel, need to refuel")],
                 queue \o << Step("dock", NoTarget, NoPayload, 3),
                             Step("refuel", NoTarget, NoPayload, 3),
                             Step("orbit", NoTarget, NoPayload, 3) >>)
    ELSE IF ~IncludesAsteroid(ship.nav.waypointSymbol)
    THEN Planned([state EXCEPT !.currentTask = Text("Navigating to mining location")],
                 queue \o << Step("navigate", Waypoint(ship.nav.systemSymbol, "ASTEROID-1"), NoPayload, 3),
                             Step("orbit", NoTarget, NoPayload, 3) >>)
    ELSE Planned([state EXCEPT !.currentTask = Text("Mining resources"),
                               !.progress = Percent(ship.cargo.units, ship.cargo.capacity)],
                 queue
                   \o (IF ship.nav.status # "IN_ORBIT"
                       THEN << Step("orbit", NoTarget, NoPayload, 3) >> ELSE << >>)
                   \o (IF \E m \in ship.mounts : IncludesSurveyor(m)
                       THEN << Step("survey", NoTarget, NoPayload, 2) >> ELSE << >>)
                   \o << Step("extract", NoTarget, NoPayload, 3) >>)

planTradingActions(ship, state, queue) ==
    IF ship.cargo.units > 0
    THEN planSellActions(ship,
             [state EXCEPT !.currentTask = Text("Analyzing trade opportunities")], queue)
    ELSE Planned([state EXCEPT !.currentTask = Text("No cargo to trade"),
                               !.status = "paused"],
                 queue)

\* ship.cargo.inventory.find(item => item.symbol === tradeSymbol)?.units || 0
AvailableUnits(ship, tradeSymbol) ==
    LET inv == ship.cargo.inventory
        hits == {i \in 1..Len(inv) : inv[i].symbol = tradeSymbol}
    IN  IF hits = {} THEN 0
        ELSE inv[CHOOSE i \in hits : \A j \in hits : i <= j].units

\* Fault: the units to deliver are the units needed, held or not
PlanDeliverableNeeded(ship, contract, deliverable, acc) ==
    LET needed == deliverable.unitsRequired - deliverable.unitsFulfilled
        availableUnits == AvailableUnits(ship, deliverable.tradeSymbol)
    IN  IF needed <= 0 THEN acc
        ELSE IF availableUnits > 0
        THEN [acc EXCEPT !.queue = @ \o
                << Step("navigate", deliverable.destinationSymbol, NoPayload, 3),
                   Step("dock", NoTarget, NoPayload, 3),
                   Step("deliver", NoTarget,
                        [contractId |-> contract.id,
                         tradeSymbol |-> deliverable.tradeSymbol,
                         units |-> needed,
                         destinationSymbol |-> deliverable.destinationSymbol], 3) >>]
        ELSE [acc EXCEPT !.state.currentTask =
                            [text |-> "Need to acquire %s for contract", n |-> 0,
                             sym |-> deliverable.tradeSymbol],
                         !.state.status = "paused"]

\* One pass of the loop over activeContract.terms.deliver
PlanDeliverable(ship, contract, deliverable, acc) ==
    LET needed == deliverable.unitsRequired - deliverable.unitsFulfilled
        availableUnits == AvailableUnits(ship, deliverable.tradeSymbol)
    IN  IF needed <= 0 THEN acc
        ELSE IF availableUnits > 0
        THEN [acc EXCEPT !.queue = @ \o
                << Step("navigate", deliverable.destinationSymbol, NoPayload, 3),
                   Step("dock", NoTarget, NoPayload, 3),
                   Step("deliver", NoTarget,
                        [contractId |-> contract.id,
                         tradeSymbol |-> deliverable.tradeSymbol,
                         units |-> Min(needed, availableUnits),
                         destinationSymbol |-> deliverable.destinationSymbol], 3) >>]
        ELSE [acc EXCEPT !.state.currentTask =
                            [text |-> "Need to acquire %s for contract", n |-> 0,
                             sym |-> deliverable.tradeSymbol],
                         !.state.status = "paused"]

RECURSIVE PlanDeliverables(_, _, _, _)
PlanDeliverables(ship, contract, deliver, acc) ==
    IF deliver = << >> THEN acc
    ELSE PlanDeliverables(ship, contract, Tail(deliver),
                          PlanDeliverable(ship, contract, Head(deliver), acc))

\* contracts.find(c => c.accepted && !c.fulfilled)
ActiveContracts(contracts) ==
    {i \in 1..Len(contracts) : contracts[i].accepted /\ ~contracts[i].fulfilled}

\* planContractActions from the point getContracts resolved
planContractActionsResolved(ship, state, queue, contracts) ==
    LET active == ActiveContracts(contracts) IN
    IF active = {}
    THEN Planned([state EXCEPT !.currentTask = Text("No active contracts"),
                               !.status = "paused"], queue)
    ELSE LET activeContract == contracts[CHOOSE i \in active : \A j \in active : i <= j] IN
         PlanDeliverables(ship, activeContract, activeContract.terms.deliver,
             Planned([state EXCEPT !.currentTask =
                         [text |-> "Working on contract: %s", n |-> 0,
                          sym |-> activeContract.type]],
                     queue))

\* planContractActions from the point getContracts rejected: its catch block
planContractActionsRejected(state, queue) ==
    Planned([state EXCEPT !.status = "error",
                          !.errorMessage = Text("Failed to plan contract actions")],
            queue)

----------------------------------------------------------------------------
\* The heap of queue arrays.  `items` is the array's content; `grave` holds
\* the steps shift() removed that a suspended executeAction still holds.  A
\* step's address is its index in grave \o items.

EmptyArray == [grave |-> << >>, items |-> << >>]

Slots == 1..NSlots

TickIds == 1..MaxTicks

NoShip == ShipSnapshot("", "", 0, 0, 0, 0, << >>, 0, {})

\* A tick() invocation: where it is suspended (pc), the AutomationState
\* objects of activeAutomations it has not finished (todo, the head being
\* processed), and the locals of processShipAutomation / planNextActions
\* that live across the await: ship, queue (q), action (act), and the
\* Gateway calls executeAction has still to make (left).
IdleTick == [pc |-> "idle", todo |-> << >>, ship |-> NoShip, q |-> 0, act |-> 0, left |-> 0]

\* A reference to an AutomationState object
StateRef(state) ==
    [shipSymbol |-> state.shipSymbol, behavior |-> state.behavior,
     policy |-> state.policy, stale |-> FALSE]

Put(f, k, v) == [x \in DOMAIN f \cup {k} |-> IF x = k THEN v ELSE f[x]]

Range(f) == {f[x] : x \in DOMAIN f}

SetMin(S) == CHOOSE x \in S : \A y \in S : x <= y

Referenced(a, queues, tks) ==
    \/ a \in Range(queues)
    \/ \E t \in TickIds : tks[t].q = a

\* new Array: the first slot nothing references
FreeSlot(queues, tks) == SetMin({a \in Slots : ~Referenced(a, queues, tks)})

AllSteps(array) == array.grave \o array.items

\* queue.shift()
Shift(array) ==
    IF array.items = << >> THEN array
    ELSE [grave |-> Append(array.grave, Head(array.items)), items |-> Tail(array.items)]

\* The step at address k of an array, rewritten by f
StepAt(array, k) == AllSteps(array)[k]

SetStepAt(array, k, step) ==
    IF k <= Len(array.grave)
    THEN [array EXCEPT !.grave[k] = step]
    ELSE [array EXCEPT !.items[k - Len(array.grave)] = step]

\* Garbage collection: an array nothing references is gone, and so is a
\* shifted step no suspended executeAction holds.
HeldSteps(a, tks) == {tks[t].act : t \in {u \in TickIds : tks[u].pc = "action" /\ tks[u].q = a}}

Dropped(a, arrs, tks) ==
    IF HeldSteps(a, tks) = {} THEN Len(arrs[a].grave)
    ELSE Min(SetMin(HeldSteps(a, tks)) - 1, Len(arrs[a].grave))

Collect(queues, arrs, tks) ==
    [arrays |->
        [a \in Slots |->
            IF ~Referenced(a, queues, tks) THEN EmptyArray
            ELSE [arrs[a] EXCEPT !.grave =
                     SubSeq(@, Dropped(a, arrs, tks) + 1, Len(@))]],
     ticks |->
        [t \in TickIds |->
            IF tks[t].pc = "action"
            THEN [tks[t] EXCEPT !.act = @ - Dropped(tks[t].q, arrs, tks)]
            ELSE tks[t]]]

----------------------------------------------------------------------------
\* localStorage

\* JSON.stringify of a number: NaN and Infinity become null
Null == [num |-> 0, den |-> -1]

JSONNumber(x) == IF x.den = 0 THEN Null ELSE x

\* JSON.parse(JSON.stringify(state)): a Date becomes its ISO string
JSONState(state) ==
    [state EXCEPT !.lastAction = "string", !.progress = JSONNumber(@)]

NoStored == [present |-> FALSE, states |-> << >>]

\* saveStates: Array.from(this.automationStates.values()) in insertion order
SaveStates(states, order) ==
    [present |-> TRUE,
     states  |-> [i \in 1..Len(order) |-> JSONState(states[order[i]])]]

----------------------------------------------------------------------------
\* RateLimiter.  Every request of the Gateway awaits waitForSlot first.  A
\* call of waitForSlot runs from Date.now() to its return or to its await of
\* the timeout in one handler; after the timeout it starts over.

MaxRequests == 2

WindowMs == 1000

WaitBuffer == 10

\* The number of callers of waitForSlot
NCallers == 3

Callers == 1..NCallers

\* The number of calls of waitForSlot
MaxSlots == 4

\* The last value of Date.now()
MaxNow == 2100

\* By how much Date.now() advances between two handlers
Delays == {500, 999, 1000, 1010}

NoWait == [pc |-> "idle", wake |-> 0]

\* this.requests.filter(time => now - time < this.windowMs)
InWindow(times, at) == SelectSeq(times, LAMBDA time : at - time < WindowMs)

\* Fault: the limit test lets one more request in
AtLimitLoose(times) == Len(times) > MaxRequests

\* this.requests.length >= this.maxRequests
AtLimit(times) == Len(times) >= MaxRequests

\* Math.min(...this.requests)
OldestRequest(times) == SetMin(Range(times))

\* One pass of waitForSlot for caller c
waitForSlot(c) ==
    LET live == InWindow(requests, now) IN
    /\ IF AtLimit(live)
       THEN LET waitTime == WindowMs - (now - OldestRequest(live)) + WaitBuffer
            IN  /\ requests' = live
                /\ callers' = [callers EXCEPT ![c] =
                                  [pc |-> "waiting",
                                   wake |-> IF waitTime > 0 THEN now + waitTime ELSE now]]
                /\ UNCHANGED granted
       ELSE /\ requests' = Append(live, now)
            /\ granted' = Append(granted, now)
            /\ callers' = [callers EXCEPT ![c] = NoWait]
    /\ UNCHANGED now
    /\ UNCHANGED orchestratorVars

\* request(): await this.rateLimiter.waitForSlot()
Request(c) ==
    /\ callers[c].pc = "idle"
    /\ Len(granted) + Cardinality({d \in Callers : callers[d].pc = "waiting"}) < MaxSlots
    /\ waitForSlot(c)

\* The timeout of a waiting caller fires, at its time or later:
\* return this.waitForSlot()
Wake(c) ==
    /\ callers[c].pc = "waiting"
    /\ now >= callers[c].wake
    /\ waitForSlot(c)

\* Time passes
Advance(d) ==
    /\ now + d <= MaxNow
    /\ now' = now + d
    /\ UNCHANGED <<requests, callers, granted>>
    /\ UNCHANGED orchestratorVars

----------------------------------------------------------------------------
\* History: the handler that ran last, the arguments of startAutomation,
\* whether the awaited call a tick continues after resolved (ok), the ship
\* snapshot it got, the contracts getContracts resolved with, the steps it
\* shifted out of an array and the steps whose retries it incremented (as it
\* left them), and how many method calls and timer firings there have been.

FirstEvent ==
    [op |-> "constructor", ship |-> "", behavior |-> "", policy |-> NoOverrides,
     tick |-> 0, ok |-> TRUE, input |-> NoShip, contracts |-> << >>,
     shifted |-> << >>, bumped |-> << >>, calls |-> 0, fires |-> 0]

Event(op, ship, tick, ok, input) ==
    [FirstEvent EXCEPT !.op = op, !.ship = ship, !.tick = tick, !.ok = ok,
                       !.input = input, !.calls = last.calls, !.fires = last.fires]

Call(op, ship) == [Event(op, ship, 0, TRUE, NoShip) EXCEPT !.calls = @ + 1]

Init ==
    /\ automationStates = << >>
    /\ stateOrder = << >>
    /\ actionQueues = << >>
    /\ arrays = [a \in Slots |-> EmptyArray]
    /\ stored = NoStored
    /\ isRunning = FALSE
    /\ intervalId = FALSE
    /\ ticks = [t \in TickIds |-> IdleTick]
    /\ last = FirstEvent
    /\ requests = << >>
    /\ now = 0
    /\ callers = [c \in Callers |-> NoWait]
    /\ granted = << >>

----------------------------------------------------------------------------
\* The public methods

\* A tick's references to the AutomationState object of shipSymbol, once
\* the map holds another object under that key
MarkStale(tick, shipSymbol) ==
    [tick EXCEPT !.todo =
        [i \in 1..Len(@) |->
            IF @[i].shipSymbol = shipSymbol THEN [@[i] EXCEPT !.stale = TRUE] ELSE @[i]]]

\* Fault: startAutomation leaves the array the map holds in place
KeepQueue(shipSymbol, tks) ==
    IF shipSymbol \in DOMAIN actionQueues
    THEN [queues |-> actionQueues, arrays |-> arrays]
    ELSE LET slot == FreeSlot(actionQueues, tks)
         IN  [queues |-> Put(actionQueues, shipSymbol, slot),
              arrays |-> [arrays EXCEPT ![slot] = EmptyArray]]

\* this.actionQueues.set(shipSymbol, []): a new array; the array the map held
\* stays with the ticks that hold it
SetEmptyQueue(shipSymbol, tks) ==
    LET others == [x \in DOMAIN actionQueues \ {shipSymbol} |-> actionQueues[x]]
        slot   == FreeSlot(others, tks)
    IN  [queues |-> Put(actionQueues, shipSymbol, slot),
         arrays |-> [arrays EXCEPT ![slot] = EmptyArray]]

startAutomation(shipSymbol, behavior, policy) ==
    LET state  == NewState(shipSymbol, behavior, policy)
        states == Put(automationStates, shipSymbol, state)
        order  == IF shipSymbol \in DOMAIN automationStates
                  THEN stateOrder ELSE Append(stateOrder, shipSymbol)
        tks    == [t \in TickIds |-> MarkStale(ticks[t], shipSymbol)]
        reset  == SetEmptyQueue(shipSymbol, tks)
        heap   == Collect(reset.queues, reset.arrays, tks)
    IN  /\ automationStates' = states
        /\ stateOrder' = order
        /\ actionQueues' = reset.queues
        /\ arrays' = heap.arrays
        /\ ticks' = heap.ticks
        /\ stored' = SaveStates(states, order)
        /\ isRunning' = TRUE               \* if (!this.isRunning) this.start()
        /\ intervalId' = (isRunning => intervalId)
        /\ last' = [Call("startAutomation", shipSymbol) EXCEPT
                        !.behavior = behavior, !.policy = policy]
        /\ UNCHANGED limiterVars

\* The body of a method that takes the AutomationState of shipSymbol, and,
\* if there is one and its status is one of `from`, sets status and
\* currentTask and saves.
SetStatus(op, shipSymbol, from, status, task) ==
    /\ IF shipSymbol \in DOMAIN automationStates
          /\ automationStates[shipSymbol].status \in from
       THEN LET states == [automationStates EXCEPT
                              ![shipSymbol].status = status,
                              ![shipSymbol].currentTask = Text(task)]
            IN  /\ automationStates' = states
                /\ stored' = SaveStates(states, stateOrder)
       ELSE UNCHANGED <<automationStates, stored>>
    /\ UNCHANGED <<stateOrder, actionQueues, arrays, isRunning, intervalId, ticks>>
    /\ last' = Call(op, shipSymbol)
    /\ UNCHANGED limiterVars

\* if (state): whatever the status
AnyStatus == {"running", "paused", "stopped", "error"}

\* Fault: resumeAutomation without the test of the status
ResumeUnguarded == {"running", "paused", "stopped", "error"}

\* if (state && state.status === 'paused')
ResumeGuard == {"paused"}

\* Fault: stopAutomation without the test of `state`, making an entry
StopCreates(shipSymbol) ==
    IF shipSymbol \in DOMAIN automationStates
    THEN SetStatus("stopAutomation", shipSymbol, AnyStatus, "stopped", "Stopped")
    ELSE LET states == Put(automationStates, shipSymbol,
                           [NewState(shipSymbol, "idle", NoOverrides) EXCEPT
                               !.status = "stopped", !.currentTask = Text("Stopped")])
             order == Append(stateOrder, shipSymbol)
         IN  /\ automationStates' = states
             /\ stateOrder' = order
             /\ stored' = SaveStates(states, order)
             /\ UNCHANGED <<actionQueues, arrays, isRunning, intervalId, ticks>>
             /\ last' = Call("stopAutomation", shipSymbol)
             /\ UNCHANGED limiterVars

stopAutomation(shipSymbol) ==
    SetStatus("stopAutomation", shipSymbol, AnyStatus, "stopped", "Stopped")

pauseAutomation(shipSymbol) ==
    SetStatus("pauseAutomation", shipSymbol, AnyStatus, "paused", "Paused")

resumeAutomation(shipSymbol) ==
    SetStatus("resumeAutomation", shipSymbol, ResumeGuard, "running", "Resuming")

\* stop(): the timer is cleared; the ticks in flight go on
stop ==
    /\ isRunning
    /\ isRunning' = FALSE
    /\ intervalId' = FALSE
    /\ UNCHANGED <<automationStates, stateOrder, actionQueues, arrays, stored, ticks>>
    /\ last' = Call("stop", "")
    /\ UNCHANGED limiterVars

\* A page reload: a new orchestrator is constructed over localStorage
\* (loadStates); the old one is gone with its ticks, its timer and its queues.
constructor ==
    /\ automationStates' =
          [s \in {stored.states[i].shipSymbol : i \in 1..Len(stored.states)} |->
              stored.states[CHOOSE i \in 1..Len(stored.states) :
                                stored.states[i].shipSymbol = s]]
    /\ stateOrder' = [i \in 1..Len(stored.states) |-> stored.states[i].shipSymbol]
    /\ actionQueues' = << >>
    /\ arrays' = [a \in Slots |-> EmptyArray]
    /\ isRunning' = FALSE
    /\ intervalId' = FALSE
    /\ ticks' = [t \in TickIds |-> IdleTick]
    /\ last' = Call("constructor", "")
    /\ UNCHANGED stored
    /\ UNCHANGED limiterVars

----------------------------------------------------------------------------
\* tick(), processShipAutomation, planNextActions
\*
\* The part of a tick that runs in one handler works on a record of what it
\* reads and writes: the two maps, the heap, localStorage, the tick's own
\* record, and the history of its shifts and retry increments.

Machine(t) ==
    [id |-> t, states |-> automationStates, queues |-> actionQueues,
     arrays |-> arrays, stored |-> stored, tick |-> ticks[t],
     shifted |-> << >>, bumped |-> << >>]

\* `state`: the AutomationState object the loop of tick() is at
Ref(m) == Head(m.tick.todo)

\* An object the map holds no more: nothing but its behavior and policy is read
DeadState(ref) ==
    [NewState(ref.shipSymbol, ref.behavior, NoOverrides) EXCEPT !.policy = ref.policy]

StateOf(m) ==
    IF Ref(m).stale THEN DeadState(Ref(m)) ELSE m.states[Ref(m).shipSymbol]

\* Assignments to fields of `state`
SetState(m, state) ==
    IF Ref(m).stale THEN m ELSE [m EXCEPT !.states[Ref(m).shipSymbol] = state]

\* The next iteration of for (const state of activeAutomations), up to the
\* await of getShip; the tick ends after the last one
NextShip(tick) ==
    IF Tail(tick.todo) = << >> THEN IdleTick
    ELSE [IdleTick EXCEPT !.pc = "getShip", !.todo = Tail(tick.todo)]

\* this.saveStates() and the return of processShipAutomation
Saved(m) ==
    [m EXCEPT !.stored = SaveStates(m.states, stateOrder),
              !.tick = NextShip(m.tick)]

\* Fault: the catch is around the loop, a failure ends the tick
CaughtAborts(m, message) ==
    LET m1 == SetState(m, [StateOf(m) EXCEPT !.status = "error", !.errorMessage = message])
    IN  [m1 EXCEPT !.stored = SaveStates(m1.states, stateOrder),
                   !.tick = IdleTick]

\* catch (error) of tick()
Caught(m, message) ==
    LET m1 == SetState(m, [StateOf(m) EXCEPT !.status = "error", !.errorMessage = message])
    IN  [m1 EXCEPT !.stored = SaveStates(m1.states, stateOrder),
                   !.tick = NextShip(m1.tick)]

\* The end of planNextActions: this.actionQueues.set(state.shipSymbol, queue),
\* then the end of processShipAutomation
AfterPlan(m, slot, r) ==
    LET m1 == SetState(m, r.state)
    IN  Saved([m1 EXCEPT !.arrays[slot].items = r.queue,
                         !.queues = Put(@, Ref(m).shipSymbol, slot)])

\* planNextActions: const queue = this.actionQueues.get(state.shipSymbol) || []
PlanQueueSlot(m) ==
    IF Ref(m).shipSymbol \in DOMAIN m.queues
    THEN m.queues[Ref(m).shipSymbol]
    ELSE FreeSlot(m.queues, [ticks EXCEPT ![m.id] = IdleTick])

planNextActions(m, ship) ==
    LET behavior == Ref(m).behavior
        slot  == PlanQueueSlot(m)
        queue == IF Ref(m).shipSymbol \in DOMAIN m.queues
                 THEN m.arrays[slot].items ELSE << >>
    IN  CASE behavior = "mining" ->
                LET r == planMiningActions(ship, StateOf(m), queue)
                IN  IF r.thrown # Undefined
                    THEN Caught(SetState(m, r.state), r.thrown)
                    ELSE AfterPlan(m, slot, r)
          [] behavior = "trading" ->
                AfterPlan(m, slot, planTradingActions(ship, StateOf(m), queue))
          [] behavior = "contract" ->
                \* planContractActions up to await spaceTraders.getContracts()
                LET m1 == SetState(m, [StateOf(m) EXCEPT
                                !.currentTask = Text("Checking active contracts")])
                IN  [m1 EXCEPT !.arrays[slot].items = queue,
                               !.tick = [@ EXCEPT !.pc = "contracts", !.ship = ship,
                                                  !.q = slot, !.act = 0, !.left = 0]]
          [] OTHER ->
                AfterPlan(m, slot, Planned(StateOf(m), queue))

\* Fault: a step out of retries puts the ship in error
ExecutedEscalates(m, success) ==
    LET q == m.tick.q
        action == StepAt(m.arrays[q], m.tick.act)
        bumped == [action EXCEPT !.retries = @ + 1]
        failed == SetStepAt(m.arrays[q], m.tick.act, bumped)
    IN  IF success
        THEN [SetState(m, [StateOf(m) EXCEPT !.lastAction = "Date"])
                EXCEPT !.arrays[q] = Shift(@),
                       !.shifted = SubSeq(m.arrays[q].items, 1, Min(1, Len(m.arrays[q].items)))]
        ELSE IF bumped.retries >= bumped.maxRetries
        THEN [SetState(m, [StateOf(m) EXCEPT !.status = "error", !.errorMessage =
                             [text |-> "Action %s failed after %n retries",
                              n |-> bumped.maxRetries, sym |-> bumped.type]])
                EXCEPT !.arrays[q] = Shift(failed),
                       !.shifted = SubSeq(failed.items, 1, Min(1, Len(failed.items))),
                       !.bumped = << bumped >>]
        ELSE [m EXCEPT !.arrays[q] = failed, !.bumped = << bumped >>]

\* processShipAutomation after executeAction returned `success`
Executed(m, success) ==
    LET q == m.tick.q
        action == StepAt(m.arrays[q], m.tick.act)
        bumped == [action EXCEPT !.retries = @ + 1]
        failed == SetStepAt(m.arrays[q], m.tick.act, bumped)
    IN  IF success
        THEN [SetState(m, [StateOf(m) EXCEPT !.lastAction = "Date"])
                EXCEPT !.arrays[q] = Shift(@),
                       !.shifted = SubSeq(m.arrays[q].items, 1, Min(1, Len(m.arrays[q].items)))]
        ELSE IF bumped.retries >= bumped.maxRetries
        THEN [SetState(m, [StateOf(m) EXCEPT !.errorMessage =
                             [text |-> "Action %s failed after %n retries",
                              n |-> bumped.maxRetries, sym |-> bumped.type]])
                EXCEPT !.arrays[q] = Shift(failed),
                       !.shifted = SubSeq(failed.items, 1, Min(1, Len(failed.items))),
                       !.bumped = << bumped >>]
        ELSE [m EXCEPT !.arrays[q] = failed, !.bumped = << bumped >>]

\* if (queue.length === 0) await this.planNextActions(ship, state); this.saveStates()
AfterExecuted(m, ship) ==
    IF Len(m.arrays[m.tick.q].items) = 0 THEN planNextActions(m, ship) ELSE Saved(m)

\* Fault: the cooldown of the ship is not looked at
NeverOnCooldown(ship) == FALSE

\* ship.cooldown && ship.cooldown.remainingSeconds > 0
OnCooldown(ship) == ship.cooldown.remainingSeconds > 0

\* processShipAutomation from the point getShip resolved with `ship`
processShipAutomation(m, ship) ==
    LET shipSymbol == Ref(m).shipSymbol
        has == shipSymbol \in DOMAIN m.queues
        q == IF has THEN m.queues[shipSymbol] ELSE 0
        queue == IF has THEN m.arrays[q].items ELSE << >>
    IN  IF OnCooldown(ship)
        THEN Saved(SetState(m, [StateOf(m) EXCEPT !.currentTask =
                        [text |-> "Waiting for cooldown (%ns)",
                         n |-> ship.cooldown.remainingSeconds, sym |-> ""]]))
        ELSE IF Len(queue) > 0
        THEN LET k == Len(m.arrays[q].grave) + 1
                 action == Head(queue)
                 m1 == [m EXCEPT
                          !.arrays[q] = SetStepAt(@, k, [action EXCEPT !.tried = TRUE]),
                          !.tick = [@ EXCEPT !.ship = ship, !.q = q, !.act = k,
                                             !.left = GatewayCalls(ship, action)]]
                 result == ExecuteActionStart(ship, action)
             IN  IF result = "call"
                 THEN [m1 EXCEPT !.tick.pc = "action"]
                 ELSE AfterExecuted(Executed(m1, result = "true"), ship)
        ELSE planNextActions(m, ship)

\* What a handler of tick t leaves behind
Commit(m, event) ==
    LET heap == Collect(m.queues, m.arrays, [ticks EXCEPT ![m.id] = m.tick])
    IN  /\ automationStates' = m.states
        /\ actionQueues' = m.queues
        /\ arrays' = heap.arrays
        /\ ticks' = heap.ticks
        /\ stored' = m.stored
        /\ last' = [event EXCEPT !.shifted = m.shifted, !.bumped = m.bumped]
        /\ UNCHANGED <<stateOrder, isRunning, intervalId>>
        /\ UNCHANGED limiterVars

\* The timer fires: setInterval(() => this.tick(), this.tickInterval).
\* tick() runs up to its first await.
tick(inFlight) ==
    /\ intervalId
    /\ \E t \in 1..inFlight : ticks[t].pc = "idle"
    /\ LET t == SetMin({u \in 1..inFlight : ticks[u].pc = "idle"})
           Running(s) == automationStates[s].status = "running"
           active == SelectSeq(stateOrder, Running)
           activeAutomations == [i \in 1..Len(active) |-> StateRef(automationStates[active[i]])]
       IN  /\ ticks' = [ticks EXCEPT ![t] =
                          IF activeAutomations = << >> THEN IdleTick
                          ELSE [IdleTick EXCEPT !.pc = "getShip", !.todo = activeAutomations]]
           /\ last' = [Event("tick", "", t, TRUE, NoShip) EXCEPT !.fires = @ + 1]
    /\ UNCHANGED <<automationStates, stateOrder, actionQueues, arrays, stored,
                   isRunning, intervalId>>
    /\ UNCHANGED limiterVars

\* await spaceTraders.getShip(state.shipSymbol) resolves
GetShipResolved(t, ship) ==
    /\ ticks[t].pc = "getShip"
    /\ Commit(processShipAutomation(Machine(t), ship),
              Event("getShip", Head(ticks[t].todo).shipSymbol, t, TRUE, ship))

\* await spaceTraders.getShip(state.shipSymbol) rejects
GetShipRejected(t) ==
    /\ ticks[t].pc = "getShip"
    /\ Commit(Caught(Machine(t), Text("Request failed")),
              Event("getShip", Head(ticks[t].todo).shipSymbol, t, FALSE, NoShip))

\* A Gateway call awaited in executeAction resolves
ActionResolved(t) ==
    /\ ticks[t].pc = "action"
    /\ Commit(IF ticks[t].left > 1
              THEN [Machine(t) EXCEPT !.tick.left = @ - 1]
              ELSE AfterExecuted(Executed(Machine(t), TRUE), ticks[t].ship),
              Event("action", Head(ticks[t].todo).shipSymbol, t, TRUE, ticks[t].ship))

\* A Gateway call awaited in executeAction rejects: catch, return false
ActionRejected(t) ==
    /\ ticks[t].pc = "action"
    /\ Commit(AfterExecuted(Executed(Machine(t), FALSE), ticks[t].ship),
              Event("action", Head(ticks[t].todo).shipSymbol, t, FALSE, ticks[t].ship))

\* await spaceTraders.getContracts() resolves in planContractActions
ContractsResolved(t, contracts) ==
    /\ ticks[t].pc = "contracts"
    /\ LET m == Machine(t)
       IN  Commit(AfterPlan(m, m.tick.q,
                     planContractActionsResolved(m.tick.ship, StateOf(m),
                                                 m.arrays[m.tick.q].items, contracts)),
                  [Event("contracts", Ref(m).shipSymbol, t, TRUE, m.tick.ship)
                      EXCEPT !.contracts = contracts])

\* await spaceTraders.getContracts() rejects: the catch of planContractActions
ContractsRejected(t) ==
    /\ ticks[t].pc = "contracts"
    /\ LET m == Machine(t)
       IN  Commit(AfterPlan(m, m.tick.q,
                     planContractActionsRejected(StateOf(m), m.arrays[m.tick.q].items)),
                  Event("contracts", Ref(m).shipSymbol, t, FALSE, m.tick.ship))

----------------------------------------------------------------------------
\* The handlers, by the inputs they are run with

\* The public methods, called with the (ship, behavior, overrides) of `starts`
ApiCalls(starts, maxCalls) ==
    \/ \E c \in starts : last.calls < maxCalls /\ startAutomation(c[1], c[2], c[3])
    \/ \E c \in starts : last.calls < maxCalls /\ stopAutomation(c[1])
    \/ \E c \in starts : last.calls < maxCalls /\ pauseAutomation(c[1])
    \/ \E c \in starts : last.calls < maxCalls /\ resumeAutomation(c[1])

\* The timer and the continuations of at most `inFlight` ticks, the Gateway
\* answering getShip with one of `ships` or an error
TickSteps(inFlight, maxFires, ships) ==
    \/ last.fires < maxFires /\ tick(inFlight)
    \/ \E t \in 1..inFlight, ship \in ships : GetShipResolved(t, ship)
    \/ \E t \in 1..inFlight : GetShipRejected(t)
    \/ \E t \in 1..inFlight : ActionResolved(t)
    \/ \E t \in 1..inFlight : ActionRejected(t)

ContractSteps(inFlight, lists) ==
    \/ \E t \in 1..inFlight, contracts \in lists : ContractsResolved(t, contracts)
    \/ \E t \in 1..inFlight : ContractsRejected(t)

----------------------------------------------------------------------------
\* Spec: two ships driven through the public methods, every tick finishing
\* before the timer fires again (the Gateway answers within tickInterval).

MaxCalls == 3

MaxFires == 2

Calls ==
    ({"S1"} \X {"mining"} \X PolicyInputs)
      \cup ({"S1"} \X {"trading", "contract"} \X {NoOverrides})
      \cup ({"S2"} \X {"idle"} \X {NoOverrides})

Next ==
    \/ ApiCalls(Calls, MaxCalls)
    \/ last.calls < MaxCalls /\ stop
    \/ last.calls < MaxCalls /\ constructor
    \/ TickSteps(1, MaxFires, TickShips)
    \/ ContractSteps(1, TickContracts)

Spec == Init /\ [][Next]_vars

----------------------------------------------------------------------------
\* SpecOverlap: one mining ship whose Gateway calls may take longer than
\* tickInterval, so that up to MaxTicks invocations of tick() are in flight.

MaxOverlapCalls == 1

MaxOverlapFires == 4

OverlapCalls == {"S1"} \X {"mining"} \X {NoOverrides}

OverlapShips ==
    { ShipSnapshot("IN_ORBIT", "ASTEROID-1",    100, 100, 10, 40, <<Ore(10)>>, 0, {"MOUNT_SURVEYOR_I"}),
      ShipSnapshot("DOCKED",   "ASTEROID-1",    100, 100, 10, 40, <<Ore(10)>>, 0, {"MOUNT_SURVEYOR_I"}),
      ShipSnapshot("IN_ORBIT", "ASTEROID-1",      8, 100, 10, 40, <<Ore(10)>>, 0, {}),
      ShipSnapshot("DOCKED",   "MARKETPLACE-1", 100, 100, 38, 40, <<Ore(38)>>, 0, {}) }

NextOverlap ==
    \/ ApiCalls(OverlapCalls, MaxOverlapCalls)
    \/ TickSteps(MaxTicks, MaxOverlapFires, OverlapShips)

SpecOverlap == Init /\ [][NextOverlap]_vars

----------------------------------------------------------------------------
\* Properties of the public methods, in Spec

OverridesMergedOntoDefaults ==
    last.op = "startAutomation" =>
        LET result == automationStates[last.ship].policy
            Named(k, o) == Has(last.policy, k) /\ Has(last.policy[k], o)
        IN  \A k \in DOMAIN defaultPolicy : \A o \in DOMAIN defaultPolicy[k] :
                ~Named(k, o) =>
                    /\ Has(result, k)
                    /\ Has(result[k], o)
                    /\ result[k][o] = defaultPolicy[k][o]

\* C3: stopAutomation, pauseAutomation and resumeAutomation called for a
\* ship that has no AutomationState change nothing: no AutomationState and
\* no queue is made for the ship, every other ship's state is as before,
\* and no tick ever processes a ship that has no AutomationState.
NoStateNoEffect ==
    [][ /\ (/\ last'.op \in {"stopAutomation", "pauseAutomation", "resumeAutomation"}
            /\ last'.ship \notin DOMAIN automationStates)
           => UNCHANGED <<automationStates, stateOrder, actionQueues, arrays,
                          stored, isRunning, intervalId, ticks>>
        /\ \A t \in TickIds : \A i \in DOMAIN ticks'[t].todo :
              ticks'[t].todo[i].shipSymbol \in DOMAIN automationStates'
      ]_vars

\* One of the three methods has been called for a ship without a state
\* while another ship has one.
CalledWithoutState ==
    /\ last.op \in {"stopAutomation", "pauseAutomation", "resumeAutomation"}
    /\ last.ship \notin DOMAIN automationStates
    /\ last.ship \notin DOMAIN actionQueues
    /\ automationStates # << >>

\* C4: resumeAutomation changes nothing unless the ship's status is paused:
\* on a running, stopped or error ship the AutomationState and the queue
\* are unchanged; on a paused ship the status becomes running.
ResumeOnlyFromPaused ==
    [][ \A s \in DOMAIN automationStates :
          (last'.op = "resumeAutomation" /\ last'.ship = s) =>
              IF automationStates[s].status = "paused"
              THEN automationStates'[s].status = "running"
              ELSE UNCHANGED <<automationStates, stateOrder, actionQueues, arrays, stored>>
      ]_vars

\* resumeAutomation has been called on a ship in error and left it so.
ResumedInError ==
    /\ last.op = "resumeAutomation"
    /\ last.ship \in DOMAIN automationStates
    /\ automationStates[last.ship].status = "error"
    /\ automationStates[last.ship].errorMessage # Undefined

\* C5: pauseAutomation on a ship whose status is already paused is a no-op:
\* every field of the AutomationState, the task description a behavior set
\* when it paused the ship included, and the queue are as before the call.
PauseIdempotent ==
    [][ \A s \in DOMAIN automationStates :
          (/\ last'.op = "pauseAutomation"
           /\ last'.ship = s
           /\ automationStates[s].status = "paused")
          => UNCHANGED <<automationStates, actionQueues, arrays>>
      ]_vars

\* C6: stopped is terminal until restart: a ship whose status is stopped
\* stays stopped under every tick and every pauseAutomation,
\* resumeAutomation and stopAutomation call; only startAutomation for that
\* ship changes it.
StoppedIsTerminal ==
    [][ \A s \in DOMAIN automationStates :
          (/\ automationStates[s].status = "stopped"
           /\ ~(last'.op = "startAutomation" /\ last'.ship = s))
          => automationStates'[s].status = "stopped"
      ]_vars

\* C7: error is not recovered without a restart: a ship whose status is
\* error never becomes running or paused through ticks, pauseAutomation or
\* resumeAutomation; only startAutomation for that ship does that.
ErrorNotRecovered ==
    [][ \A s \in DOMAIN automationStates :
          (/\ automationStates[s].status = "error"
           /\ ~(last'.op = "startAutomation" /\ last'.ship = s))
          => automationStates'[s].status \notin {"running", "paused"}
      ]_vars

----------------------------------------------------------------------------
\* Properties of the execution of steps, in SpecOverlap

\* C8: steps are executed strictly in the order they were enqueued: a
\* Gateway action is attempted only for the step at the head of the ship's
\* queue, no step is removed from a queue without having been attempted,
\* and no step is attempted after a step enqueued later than it, under
\* every interleaving of timer ticks and method calls.
FifoExecution ==
    /\ (last.op = "getShip" /\ ticks[last.tick].pc = "action") =>
          /\ ticks[last.tick].q = actionQueues[last.ship]
          /\ ticks[last.tick].act = Len(arrays[ticks[last.tick].q].grave) + 1
    /\ \A i \in DOMAIN last.shifted : last.shifted[i].tried
    /\ \A a \in Slots : \A i, j \in DOMAIN AllSteps(arrays[a]) :
          (i < j /\ AllSteps(arrays[a])[j].tried) => AllSteps(arrays[a])[i].tried

\* C9: every step still in a ship's queue has a retry count strictly below
\* its maxRetries, and no step's retry count ever exceeds its maxRetries.
RetriesBounded ==
    /\ \A s \in DOMAIN actionQueues : \A i \in DOMAIN arrays[actionQueues[s]].items :
          arrays[actionQueues[s]].items[i].retries < arrays[actionQueues[s]].items[i].maxRetries
    /\ \A a \in Slots : \A i \in DOMAIN AllSteps(arrays[a]) :
          AllSteps(arrays[a])[i].retries <= AllSteps(arrays[a])[i].maxRetries
    /\ \A i \in DOMAIN last.bumped : last.bumped[i].retries <= last.bumped[i].maxRetries

\* The ship-state precondition of a step is unmet
PreconditionUnmet(ship, step) ==
    \/ step.type \in {"extract", "survey"} /\ ship.nav.status # "IN_ORBIT"
    \/ step.type \in {"refuel", "sell"} /\ ship.nav.status # "DOCKED"

\* processShipAutomation of tick t is about to execute the head step, whose
\* precondition is unmet in the snapshot getShip resolves with
ExecutesUnmet(t, ship) ==
    /\ ticks[t].pc = "getShip"
    /\ ship.cooldown.remainingSeconds = 0
    /\ Head(ticks[t].todo).shipSymbol \in DOMAIN actionQueues
    /\ arrays[actionQueues[Head(ticks[t].todo).shipSymbol]].items # << >>
    /\ PreconditionUnmet(ship, Head(arrays[actionQueues[Head(ticks[t].todo).shipSymbol]].items))

\* C10: when the head step's ship-state precondition is unmet (extract or
\* survey while not IN_ORBIT, refuel or sell while not DOCKED), executing it
\* makes no Gateway action call, counts as a failure, increments the step's
\* retry count by exactly 1, and leaves the step at the head of the queue
\* while the count is below maxRetries.
UnmetPreconditionFailsLocally ==
    [][ \A t \in TickIds :
          (/\ last'.op = "getShip" /\ last'.tick = t /\ last'.ok
           /\ ExecutesUnmet(t, last'.input))
          => LET q == actionQueues[Head(ticks[t].todo).shipSymbol]
                 step == Head(arrays[q].items)
                 failed == [step EXCEPT !.retries = @ + 1, !.tried = TRUE]
             IN  /\ ticks'[t].pc # "action"
                 /\ last'.bumped = << failed >>
                 /\ failed.retries < failed.maxRetries =>
                       /\ last'.shifted = << >>
                       /\ arrays'[q].items = <<failed>> \o Tail(arrays[q].items)
      ]_vars

\* An extract step has just failed on a DOCKED ship and stays at the head
\* of the queue with one retry counted.
ExtractFailedWhileDocked ==
    /\ last.op = "getShip"
    /\ last.ok
    /\ last.input.nav.status = "DOCKED"
    /\ last.bumped # << >>
    /\ last.bumped[1].type = "extract"
    /\ last.bumped[1].retries = 1
    /\ arrays[actionQueues[last.ship]].items # << >>
    /\ Head(arrays[actionQueues[last.ship]].items) = last.bumped[1]

----------------------------------------------------------------------------
\* Properties of a reload, in Spec

\* The steps processShipAutomation would find for a ship
QueueOf(queues, heap, s) ==
    IF s \in DOMAIN queues THEN heap[queues[s]].items ELSE << >>

\* C12: a new orchestrator constructed over the snapshot just persisted has,
\* for every ship, the same behavior, status and policy as before, and the
\* ship's queue has the same steps in the same order.
ReloadReproduces ==
    [][ (/\ last'.op = "constructor" /\ last'.calls = last.calls + 1
         /\ stored = SaveStates(automationStates, stateOrder))
        => \A s \in DOMAIN automationStates :
             /\ s \in DOMAIN automationStates'
             /\ automationStates'[s].behavior = automationStates[s].behavior
             /\ automationStates'[s].status = automationStates[s].status
             /\ automationStates'[s].policy = automationStates[s].policy
             /\ QueueOf(actionQueues', arrays', s) = QueueOf(actionQueues, arrays, s)
      ]_vars

\* This step is the handler of tick t in which processShipAutomation throws
\* for the ship the loop is at: getShip rejects, or the mining planner reads
\* an option of a policy that lacks stopConditions.
Throws(t) ==
    /\ ticks[t].pc = "getShip"
    /\ last' # last /\ last'.op = "getShip" /\ last'.tick = t
    /\ \/ ~last'.ok
       \/ /\ last'.ok
          /\ last'.input.cooldown.remainingSeconds = 0
          /\ QueueOf(actionQueues, arrays, Head(ticks[t].todo).shipSymbol) = << >>
          /\ Head(ticks[t].todo).behavior = "mining"
          /\ ~Has(Head(ticks[t].todo).policy.mining, "stopConditions")

GatewayFailureNotError ==
    [][ \A t \in TickIds :
          (/\ ticks[t].pc \in {"getShip", "action", "contracts"}
           /\ last' # last /\ last'.tick = t /\ ~last'.ok
           /\ last'.op \in {"getShip", "action", "contracts"}
           /\ ~Head(ticks[t].todo).stale
           /\ automationStates[Head(ticks[t].todo).shipSymbol].status # "error")
          => automationStates'[Head(ticks[t].todo).shipSymbol].status # "error"
      ]_vars

\* C29: when startAutomation was called for a ship while its processing in
\* a tick, under the state it replaced, awaited the Gateway, that
\* processing, when it continues, appends no step to the new queue and
\* removes none, and leaves the new AutomationState as it is (so that every
\* step of the new queue was planned by the new behavior).
RestartUntouchedByOldTick ==
    [][ \A t \in TickIds :
          (/\ ticks[t].pc \in {"getShip", "action", "contracts"}
           /\ last' # last /\ last'.tick = t
           /\ last'.op \in {"getShip", "action", "contracts"}
           /\ Head(ticks[t].todo).stale
           /\ last'.ship \in DOMAIN automationStates)
          => /\ QueueOf(actionQueues', arrays', last'.ship)
                  = QueueOf(actionQueues, arrays, last'.ship)
             /\ automationStates'[last'.ship] = automationStates[last'.ship]
      ]_vars

----------------------------------------------------------------------------
\* SpecRestart: one mining ship and reloads. The interval timer fires for as
\* long as it is set, and every awaited Gateway call settles: weak fairness
\* of the tick steps.

MaxRestartCalls == 2

MaxRestartFires == 2

RestartCalls == {"S1"} \X {"mining"} \X {NoOverrides}

RestartShips ==
    { ShipSnapshot("IN_ORBIT", "ASTEROID-1", 100, 100, 10, 40, <<Ore(10)>>, 0, {}),
      ShipSnapshot("DOCKED",   "HQ",         100, 100,  0, 40, << >>,       0, {}) }

NextRestart ==
    \/ ApiCalls(RestartCalls, MaxRestartCalls)
    \/ last.calls < MaxRestartCalls /\ constructor
    \/ TickSteps(1, MaxRestartFires, RestartShips)

SpecRestart ==
    Init /\ [][NextRestart]_vars /\ WF_vars(TickSteps(1, MaxRestartFires, RestartShips))

\* C13: after a restart over the persisted snapshot, with timer firings
\* left, a ship whose persisted status is running is eventually taken up by
\* a tick again, unless somebody calls a public method first.
RestartedRunningProcessed ==
    \A s \in Ships :
        [](  (/\ last.op = "constructor" /\ last.calls > 0
              /\ last.fires < MaxRestartFires
              /\ s \in DOMAIN automationStates
              /\ automationStates[s].status = "running")
          => <>(\/ \E t \in TickIds : /\ ticks[t].pc # "idle"
                                       /\ Head(ticks[t].todo).shipSymbol = s
                \/ last.op \in {"startAutomation", "stopAutomation",
                               "pauseAutomation", "resumeAutomation"}) )

----------------------------------------------------------------------------
\* SpecRetry: one mining ship that does not sell when full, one tick in
\* flight at a time, long enough for a step to run out of retries.

MaxRetryCalls == 1

MaxRetryFires == 4

RetryCalls ==
    {"S1"} \X {"mining"} \X {[mining |-> [DefaultMiningPolicy EXCEPT !.autoSellWhenFull = FALSE]]}

RetryShips ==
    { ShipSnapshot("IN_ORBIT", "ASTEROID-1",    100, 100, 10, 40, <<Ore(10)>>, 0, {}),
      ShipSnapshot("DOCKED",   "ASTEROID-1",    100, 100, 10, 40, <<Ore(10)>>, 0, {"MOUNT_SURVEYOR_I"}),
      ShipSnapshot("DOCKED",   "MARKETPLACE-1", 100, 100, 38, 40, <<Ore(38)>>, 0, {}) }

NextRetry ==
    \/ ApiCalls(RetryCalls, MaxRetryCalls)
    \/ TickSteps(1, MaxRetryFires, RetryShips)

SpecRetry == Init /\ [][NextRetry]_vars

\* The handler that ran last counted the last retry of a step
Exhausted(event) ==
    /\ event.op \in {"getShip", "action"}
    /\ event.bumped # << >>
    /\ event.bumped[1].retries >= event.bumped[1].maxRetries

ExhaustedMessage(step) ==
    [text |-> "Action %s failed after %n retries", n |-> step.maxRetries, sym |-> step.type]

----------------------------------------------------------------------------
\* SpecPlan: one ship, mining or working on a contract with the default
\* policy, one tick in flight at a time, and the ship conditions the
\* planners distinguish.

MaxPlanCalls == 1

MaxPlanFires == 2

PlanCalls == {"S1"} \X {"mining", "contract"} \X {NoOverrides}

PlanShips ==
    { ShipSnapshot("DOCKED",   "HQ",            100, 100,  0, 40, << >>,               0, {}),
      ShipSnapshot("IN_ORBIT", "HQ",            100, 100, 10, 40, <<Ore(10)>>,         0, {"MOUNT_SURVEYOR_I"}),
      ShipSnapshot("IN_ORBIT", "ASTEROID-1",    100, 100, 10, 40, <<Ore(10)>>,         0, {}),
      ShipSnapshot("DOCKED",   "MARKETPLACE-1", 100, 100, 38, 40, <<Ore(30), Ice(8)>>, 0, {}),
      ShipSnapshot("IN_ORBIT", "ASTEROID-1",    100, 100, 36, 40, <<Ore(36)>>,         0, {"MOUNT_SURVEYOR_I"}),
      ShipSnapshot("IN_ORBIT", "HQ",            100, 100,  0,  0, << >>,               0, {}),
      ShipSnapshot("IN_ORBIT", "ASTEROID-1",      8, 100,  0, 40, << >>,               0, {}),
      ShipSnapshot("IN_ORBIT", "ASTEROID-1",      8, 100, 10, 40, <<Ore(10)>>,         0, {}),
      ShipSnapshot("IN_ORBIT", "ASTEROID-1",      8, 100, 38, 40, <<Ore(38)>>,         0, {}),
      ShipSnapshot("IN_ORBIT", "ASTEROID-1",     10, 100, 10, 40, <<Ore(10)>>,         0, {}) }

PlanContracts ==
    { << >>,
      << Contract(TRUE, FALSE, << Deliverable("GOLD", 10, 0) >>) >>,
      << Contract(TRUE, FALSE, << Deliverable("GOLD", 10, 0), Deliverable("IRON_ORE", 20, 0) >>) >>,
      << Contract(TRUE, TRUE,  << Deliverable("GOLD", 10, 10) >>),
         Contract(TRUE, FALSE, << Deliverable("IRON_ORE", 20, 15), Deliverable("ICE_WATER", 50, 0),
                                  Deliverable("GOLD", 10, 10) >>) >>,
      << Contract(TRUE, FALSE, << Deliverable("IRON_ORE", 20, 20) >>) >> }

NextPlan ==
    \/ ApiCalls(PlanCalls, MaxPlanCalls)
    \/ TickSteps(1, MaxPlanFires, PlanShips)
    \/ ContractSteps(1, PlanContracts)

SpecPlan == Init /\ [][NextPlan]_vars

\* This step is the handler in which a tick, having got the ship, plans for
\* running ship s of the given behavior, whose queue is empty.
PlanCycle(s, behavior) ==
    /\ last' # last /\ last'.op = "getShip" /\ last'.ok /\ last'.ship = s
    /\ ~Head(ticks[last'.tick].todo).stale
    /\ automationStates[s].status = "running"
    /\ automationStates[s].behavior = behavior
    /\ QueueOf(actionQueues, arrays, s) = << >>
    /\ last'.input.cooldown.remainingSeconds = 0

Types(queue) == [i \in 1..Len(queue) |-> queue[i].type]

HasSurveyor(ship) == \E m \in ship.mounts : IncludesSurveyor(m)

\* C14: one plan cycle of a running mining ship with an empty queue, fuel
\* above the minimum and cargo below the full threshold, at a waypoint that
\* is not an asteroid, leaves the queue equal to [navigate(asteroid), orbit,
\* extract], with a survey step before extract only if the ship has a
\* surveyor mount.
MiningPlanFromElsewhere ==
    [][ \A s \in DOMAIN automationStates :
          (/\ PlanCycle(s, "mining")
           /\ ~FuelLow(last'.input, automationStates[s].policy.mining)
           /\ ~CargoFull(last'.input)
           /\ ~IncludesAsteroid(last'.input.nav.waypointSymbol))
          => /\ Types(QueueOf(actionQueues', arrays', s)) =
                   <<"navigate", "orbit">>
                     \o (IF HasSurveyor(last'.input) THEN <<"survey">> ELSE << >>)
                     \o <<"extract">>
             /\ IncludesAsteroid(QueueOf(actionQueues', arrays', s)[1].target)
      ]_vars

\* The sell sub-plan: navigate to the system's marketplace, dock, sell
IsSellPlan(queue) ==
    /\ Types(queue) = <<"navigate", "dock", "sell">>
    /\ queue[1].target.name = "MARKETPLACE-1"

\* The cargo case of C15: units at least 90% of capacity, the max-cargo stop
\* condition enabled and autoSellWhenFull true.
FullWithAutoSell(ship, policy) ==
    /\ ship.cargo.units * 10 >= ship.cargo.capacity * 9
    /\ Truthy(policy, "autoSellWhenFull")
    /\ Has(policy, "stopConditions") /\ Truthy(policy.stopConditions, "maxCargo")

LowFuelPlansRefuel ==
    [][ \A s \in DOMAIN automationStates :
          (/\ PlanCycle(s, "mining")
           /\ Has(automationStates[s].policy.mining, "stopConditions")
           /\ Truthy(automationStates[s].policy.mining.stopConditions, "lowFuel")
           /\ Has(automationStates[s].policy.mining, "minFuelPercent")
           /\ last'.input.fuel.current * 100 <
                 automationStates[s].policy.mining.minFuelPercent * last'.input.fuel.capacity)
          => Types(QueueOf(actionQueues', arrays', s)) = <<"dock", "refuel", "orbit">>
      ]_vars

\* C17: a contract plan cycle (for a running ship with an empty queue) that
\* meets an unmet delivery requirement for a good of which the ship holds 0
\* units, which is when the task says that the good must be acquired, ends
\* with status paused and no queue entries.
MissingGoodPausesWithoutSteps ==
    [][ \A s \in DOMAIN automationStates :
          (/\ last' # last /\ last'.op = "contracts" /\ last'.ok /\ last'.ship = s
           /\ ~Head(ticks[last'.tick].todo).stale
           /\ automationStates[s].status = "running"
           /\ QueueOf(actionQueues, arrays, s) = << >>
           /\ automationStates'[s].currentTask.text = "Need to acquire %s for contract")
          => /\ automationStates'[s].status = "paused"
             /\ AvailableUnits(last'.input, automationStates'[s].currentTask.sym) = 0
             /\ QueueOf(actionQueues', arrays', s) = << >>
      ]_vars

----------------------------------------------------------------------------
\* SpecLimiter: the callers of one RateLimiter and the clock.

NextLimiter ==
    \/ \E c \in Callers : Request(c)
    \/ \E c \in Callers : Wake(c)
    \/ \E d \in Delays : Advance(d)

SpecLimiter == Init /\ [][NextLimiter]_vars

\* Of any MaxRequests + 1 slots granted, the last is at least WindowMs after
\* the first: no window of WindowMs holds more than MaxRequests slots.
AtMostTwoPerWindow ==
    \A i \in DOMAIN granted :
        i + MaxRequests \in DOMAIN granted
        => granted[i + MaxRequests] - granted[i] >= WindowMs

\* A caller that starts to wait is given a time in the future and no slot;
\* a caller that waits goes on waiting or gets its slot.
Delayed ==
    \A c \in Callers :
        /\ (callers'[c].pc = "waiting" /\ callers'[c] # callers[c])
           => callers'[c].wake > now' /\ granted' = granted
        /\ callers[c].pc = "waiting"
           => \/ callers'[c].pc = "waiting"
              \/ callers'[c] = NoWait /\ granted' = Append(granted, now)

\* C20: the rate limiter grants at most 2 slots in any window of 1000 ms,
\* for every number of concurrent callers of waitForSlot and every order of
\* their wake-ups; a caller over the limit is delayed, never rejected.
RateLimited == [](AtMostTwoPerWindow) /\ [][Delayed]_vars

\* Three callers asked at time 0: two got their slots at once, the third
\* waited and got its slot when its timeout fired, at 1010.
ThirdCallerDelayed ==
    /\ Len(granted) >= 3
    /\ granted[1] = 0 /\ granted[2] = 0 /\ granted[3] = WindowMs + WaitBuffer
    /\ \E c \in Callers : callers[c].pc = "waiting"

\* Two ticks are awaiting the Gateway call of the same step
SameStepSentTwice ==
    \E t, u \in TickIds :
        /\ t # u
        /\ ticks[t].pc = "action" /\ ticks[u].pc = "action"
        /\ Head(ticks[t].todo).shipSymbol = Head(ticks[u].todo).shipSymbol
        /\ ticks[t].q = ticks[u].q /\ ticks[t].act = ticks[u].act

\* C23: the timer never has two executions of tick active together, and so
\* the same head step is never awaited at the Gateway by two ticks: at most
\* one step per ship is in flight.
OneStepInFlight ==
    /\ \A t, u \in TickIds : (ticks[t].pc # "idle" /\ ticks[u].pc # "idle") => t = u
    /\ ~SameStepSentTwice

\* C26: with the low-fuel stop condition enabled (and cargo below the full
\* threshold), a mining plan cycle enqueues [dock, refuel, orbit] whenever
\* the fuel percentage is less than or equal to minFuelPercent, also when
\* it is exactly equal.
FuelAtThresholdPlansRefuel ==
    [][ \A s \in DOMAIN automationStates :
          (/\ PlanCycle(s, "mining")
           /\ Has(automationStates[s].policy.mining, "stopConditions")
           /\ Truthy(automationStates[s].policy.mining.stopConditions, "lowFuel")
           /\ Has(automationStates[s].policy.mining, "minFuelPercent")
           /\ last'.input.cargo.units * 10 < last'.input.cargo.capacity * 9
           /\ last'.input.fuel.capacity > 0
           /\ last'.input.fuel.current * 100 <=
                 automationStates[s].policy.mining.minFuelPercent * last'.input.fuel.capacity)
          => Types(QueueOf(actionQueues', arrays', s)) = <<"dock", "refuel", "orbit">>
      ]_vars

\* The units of a good in the ship's cargo
Held(ship, good) ==
    LET inv == ship.cargo.inventory
        at == {i \in DOMAIN inv : inv[i].symbol = good}
    IN  IF at = {} THEN 0 ELSE inv[SetMin(at)].units

\* The delivery requirements of a contract that are unmet and whose good
\* the ship holds, in the order of the contract
Deliverables(ship, contract) ==
    SelectSeq(contract.terms.deliver,
              LAMBDA d : d.unitsRequired - d.unitsFulfilled > 0 /\ Held(ship, d.tradeSymbol) > 0)

\* C27: one contract plan cycle (for a running ship with an empty queue)
\* appends, for every unmet delivery requirement of the active contract
\* whose good the ship holds, in the order of the contract, navigate to the
\* destination, dock and deliver; the units of the deliver step are the
\* minimum of the units still needed and the units held.
DeliveryPlanned ==
    [][ \A s \in DOMAIN automationStates :
          (/\ last' # last /\ last'.op = "contracts" /\ last'.ok /\ last'.ship = s
           /\ ~Head(ticks[last'.tick].todo).stale
           /\ automationStates[s].status = "running"
           /\ QueueOf(actionQueues, arrays, s) = << >>
           /\ ActiveContracts(last'.contracts) # {})
          => LET contract == last'.contracts[SetMin(ActiveContracts(last'.contracts))]
                 due == Deliverables(last'.input, contract)
                 queue == QueueOf(actionQueues', arrays', s)
             IN  /\ Len(queue) = 3 * Len(due)
                 /\ \A i \in DOMAIN due :
                       LET needed == due[i].unitsRequired - due[i].unitsFulfilled
                           held == Held(last'.input, due[i].tradeSymbol)
                           deliver == queue[3 * i].payload
                       IN  /\ queue[3 * i - 2].type = "navigate"
                           /\ queue[3 * i - 2].target = due[i].destinationSymbol
                           /\ queue[3 * i - 1].type = "dock"
                           /\ queue[3 * i].type = "deliver"
                           /\ deliver.contractId = contract.id
                           /\ deliver.tradeSymbol = due[i].tradeSymbol
                           /\ deliver.destinationSymbol = due[i].destinationSymbol
                           /\ deliver.units = (IF needed < held THEN needed ELSE held)
                           /\ deliver.units <= needed /\ deliver.units <= held
      ]_vars

\* Two deliveries have been planned: 5 of the 30 IRON_ORE held (5 still
\* needed), and the 8 ICE_WATER held (50 needed).
TwoDeliveriesPlanned ==
    /\ last.op = "contracts" /\ last.ok
    /\ Types(QueueOf(actionQueues, arrays, last.ship))
         = <<"navigate", "dock", "deliver", "navigate", "dock", "deliver">>
    /\ QueueOf(actionQueues, arrays, last.ship)[3].payload.units = 5
    /\ QueueOf(actionQueues, arrays, last.ship)[6].payload.units = 8
    /\ automationStates[last.ship].status = "running"

\* C30: every plan cycle for a running ship with an empty queue (a mining
\* plan, or a contract plan from the point the contract list has arrived)
\* appends at least one step to the queue or moves the status away from
\* running, for every ship snapshot and every contract list.
PlanningMakesProgress ==
    [][ \A s \in DOMAIN automationStates :
          (\/ PlanCycle(s, "mining")
           \/ /\ last' # last /\ last'.op = "contracts" /\ last'.ship = s
              /\ ~Head(ticks[last'.tick].todo).stale
              /\ automationStates[s].status = "running"
              /\ QueueOf(actionQueues, arrays, s) = << >>)
          => \/ QueueOf(actionQueues', arrays', s) # << >>
             \/ automationStates'[s].status # "running"
      ]_vars

----------------------------------------------------------------------------
\* SpecCycle: one mining ship, one tick in flight at a time, with ships on
\* cooldown, and with calls of the public methods while the tick waits.

MaxCycleCalls == 2

MaxCycleFires == 3

CycleCalls == {"S1"} \X {"mining"} \X {NoOverrides}

CycleShips ==
    { ShipSnapshot("IN_ORBIT", "ASTEROID-1", 100, 100, 10, 40, <<Ore(10)>>,  0, {}),
      ShipSnapshot("IN_ORBIT", "ASTEROID-1", 100, 100, 10, 40, <<Ore(10)>>, 30, {}),
      ShipSnapshot("DOCKED",   "ASTEROID-1", 100, 100, 10, 40, <<Ore(10)>>,  0, {}) }

NextCycle ==
    \/ ApiCalls(CycleCalls, MaxCycleCalls)
    \/ TickSteps(1, MaxCycleFires, CycleShips)

SpecCycle == Init /\ [][NextCycle]_vars

WaitingForCooldown(ship) ==
    [text |-> "Waiting for cooldown (%ns)", n |-> ship.cooldown.remainingSeconds, sym |-> ""]

\* C21: when the ship fetched by a tick reports a remaining cooldown > 0,
\* the tick sets the ship's task to the waiting message and nothing else:
\* it starts no Gateway action call and no planning, removes no step and
\* counts no retry, and the queue with every step's retries, the status,
\* the errorMessage and every other field of the state are as before.
CooldownOnlySetsTask ==
    [][ \A t \in TickIds :
          (/\ ticks[t].pc = "getShip"
           /\ last' # last /\ last'.op = "getShip" /\ last'.ok /\ last'.tick = t
           /\ last'.input.cooldown.remainingSeconds > 0)
          => LET s == last'.ship IN
             /\ ticks'[t].pc \notin {"action", "contracts"}
             /\ last'.shifted = << >> /\ last'.bumped = << >>
             /\ actionQueues' = actionQueues
             /\ QueueOf(actionQueues', arrays', s) = QueueOf(actionQueues, arrays, s)
             /\ DOMAIN automationStates' = DOMAIN automationStates
             /\ \A u \in DOMAIN automationStates \ {s} :
                   automationStates'[u] = automationStates[u]
             /\ s \in DOMAIN automationStates =>
                   /\ [automationStates'[s] EXCEPT !.currentTask = Undefined]
                        = [automationStates[s] EXCEPT !.currentTask = Undefined]
                   /\ ~Head(ticks[t].todo).stale =>
                        automationStates'[s].currentTask = WaitingForCooldown(last'.input)
      ]_vars

\* A tick has found the ship on cooldown with a step waiting in its queue.
SkippedOnCooldown ==
    /\ last.op = "getShip" /\ last.ok
    /\ last.input.cooldown.remainingSeconds > 0
    /\ QueueOf(actionQueues, arrays, last.ship) # << >>
    /\ automationStates[last.ship].status = "running"
    /\ automationStates[last.ship].currentTask = WaitingForCooldown(last.input)

----------------------------------------------------------------------------
\* SpecOverlapContract: one ship working on a contract; the timer may fire
\* while an earlier tick still awaits the Gateway.

MaxContractCalls == 1

MaxContractFires == 3

ContractCalls == {"S1"} \X {"contract"} \X {NoOverrides}

ContractShips ==
    { ShipSnapshot("DOCKED",   "HQ", 100, 100, 10, 40, <<Ore(10)>>, 0, {}),
      ShipSnapshot("IN_ORBIT", "HQ", 100, 100,  0, 40, << >>,       0, {}) }

ContractLists ==
    { << Contract(TRUE, FALSE, << Deliverable("IRON_ORE", 20, 0) >>) >>,
      << Contract(TRUE, FALSE, << Deliverable("IRON_ORE", 20, 20) >>) >> }

NextOverlapContract ==
    \/ ApiCalls(ContractCalls, MaxContractCalls)
    \/ TickSteps(MaxTicks, MaxContractFires, ContractShips)
    \/ ContractSteps(MaxTicks, ContractLists)

SpecOverlapContract == Init /\ [][NextOverlapContract]_vars

\* C22: planning for a ship starts only when its queue is empty and no
\* other planning for the ship is in progress: at most one tick awaits the
\* contract list for a ship, and a handler that appends planned steps to a
\* ship's queue appends them to an empty queue (empty after the removal of
\* the step the handler itself completed), so the queue never holds the
\* steps of two plan cycles; also when ticks overlap.
OnePlanCycleInQueue ==
    [][ /\ \A t, u \in TickIds :
             (t # u /\ ticks'[t].pc = "contracts" /\ ticks'[u].pc = "contracts")
             => Head(ticks'[t].todo).shipSymbol # Head(ticks'[u].todo).shipSymbol
        /\ \A s \in DOMAIN actionQueues :
             (/\ last' # last /\ last'.op \in {"getShip", "action", "contracts"}
              /\ last'.ship = s
              /\ Len(QueueOf(actionQueues', arrays', s))
                    > Len(QueueOf(actionQueues, arrays, s)) - Len(last'.shifted))
             => Len(QueueOf(actionQueues, arrays, s)) - Len(last'.shifted) = 0
      ]_vars

----------------------------------------------------------------------------
\* Properties of one ship's processing in a tick, in SpecCycle

\* The number of steps the handler this step is has appended to the queue
\* of ship s
Appended(s) ==
    Len(QueueOf(actionQueues', arrays', s))
      - (Len(QueueOf(actionQueues, arrays, s)) - Len(last'.shifted))

\* C24: when stopAutomation or pauseAutomation was called for a ship while
\* its processing in a tick awaited the Gateway, the processing applies the
\* result of the call in flight when it continues, but it does not invoke
\* planning and appends nothing to the queue: no handler of a tick plans
\* for a ship whose status is not running.
NoPlanningUnlessRunning ==
    [][ \A t \in TickIds :
          (/\ ticks[t].pc \in {"getShip", "action", "contracts"}
           /\ last' # last /\ last'.tick = t
           /\ last'.op \in {"getShip", "action", "contracts"}
           /\ ~Head(ticks[t].todo).stale
           /\ automationStates[last'.ship].status \in {"stopped", "paused"})
          => /\ Appended(last'.ship) = 0
             /\ ticks'[t].pc # "contracts"
             /\ automationStates'[last'.ship].currentTask
                  = automationStates[last'.ship].currentTask
      ]_vars

\* C25: in one tick a ship is on cooldown, or has its head step executed,
\* or is planned for, never two of these: the handler in which the
\* execution of a step ends (the awaited action call settles, or the step
\* fails without a call) does not invoke planning and appends nothing to
\* the queue, so that a plan is always made from a snapshot fetched after
\* the last executed action.
ExecutedOrPlanned ==
    [][ \A t \in TickIds :
          (/\ last' # last /\ last'.tick = t
           /\ \/ ticks[t].pc = "action" /\ last'.op = "action" /\ ticks'[t].pc # "action"
              \/ ticks[t].pc = "getShip" /\ last'.op = "getShip" /\ last'.bumped # << >>)
          => /\ Appended(last'.ship) = 0
             /\ ticks'[t].pc # "contracts"
      ]_vars

----------------------------------------------------------------------------
\* SpecDeliver: one ship working on a contract whose good it holds, one
\* tick in flight at a time, long enough to reach the deliver step.

MaxDeliverCalls == 2

MaxDeliverFires == 4

DeliverCalls == {"S1"} \X {"contract"} \X {NoOverrides}

DeliverShips ==
    { ShipSnapshot("DOCKED",   "HQ", 100, 100, 10, 40, <<Ore(10)>>, 0, {}),
      ShipSnapshot("IN_ORBIT", "HQ", 100, 100, 10, 40, <<Ore(10)>>, 0, {}) }

DeliverLists ==
    { << Contract(TRUE, FALSE, << Deliverable("IRON_ORE", 20, 0) >>) >> }

NextDeliver ==
    \/ ApiCalls(DeliverCalls, MaxDeliverCalls)
    \/ TickSteps(1, MaxDeliverFires, DeliverShips)
    \/ ContractSteps(1, DeliverLists)

SpecDeliver == Init /\ [][NextDeliver]_vars

\* C28: when a deliver step is at the head of the queue and the ship is
\* docked at the destination, executing the step calls the Gateway's
\* contract delivery: the tick awaits the call, and the step is not counted
\* as failed.
DeliverCallsGateway ==
    [][ \A t \in TickIds :
          (/\ ticks[t].pc = "getShip"
           /\ last' # last /\ last'.op = "getShip" /\ last'.ok /\ last'.tick = t
           /\ ~Head(ticks[t].todo).stale
           /\ last'.input.cooldown.remainingSeconds = 0
           /\ QueueOf(actionQueues, arrays, last'.ship) # << >>
           /\ Head(QueueOf(actionQueues, arrays, last'.ship)).type = "deliver"
           /\ last'.input.nav.status = "DOCKED"
           /\ last'.input.nav.waypointSymbol
                = Head(QueueOf(actionQueues, arrays, last'.ship)).payload.destinationSymbol)
          => /\ ticks'[t].pc = "action"
             /\ last'.bumped = << >>
      ]_vars

====
